---- MODULE Spec2Model ----
(***************************************************************************)
(* A model of the symNMF core (src/symnmf.c) and of its Python binding     *)
(* (src/symnmfmodule.c).                                                   *)
(*                                                                         *)
(* Numbers.  A C double is modelled by a fixed-point number with Scale     *)
(* units per 1.0, together with the IEEE-754 special values: overflow      *)
(* gives +Inf/-Inf, x/0 gives an infinity, 0/0, 0*Inf and Inf-Inf give     *)
(* NaN, and every comparison with a NaN is false.  The sign of zero is not *)
(* modelled.                                                               *)
(*                                                                         *)
(* Memory.  Every malloc/calloc block has a name <<matrix, slot>>: slot    *)
(* ARR is the array of row pointers, slot i >= 0 is row i.  live is the    *)
(* set of blocks that are allocated.  A row pointer read from a slot that  *)
(* was never assigned is an arbitrary value chosen by the environment.     *)
(***************************************************************************)
EXTENDS Integers, Sequences, FiniteSets, TLC

VARIABLES
    pc,         \* position of the running operation
    op,         \* the operation under test
    n, k, d,    \* the dimensions the operation was called with
    store,      \* contents of the matrices that outlive one step
    live,       \* the allocated heap blocks
    faults,     \* memory errors committed so far
    ret,        \* what the operation returned
    iter,       \* symnmf's loop counter
    updates,    \* successful update_H calls of this symnmf call
    lastDelta,  \* the last value of calculate_frobenius_norm
    failed,     \* did an allocation of this call fail
    host        \* the binding's host objects (real list sizes)

vars == <<pc, op, n, k, d, store, live, faults, ret, iter, updates, lastDelta,
          failed, host>>

----------------------------------------------------------------------------
(* Bounds of the model *)

MaxN == 2
MaxK == 2
MaxD == 1
MaxCoord == 5
HalfUnit == 5000
MaxFinite == 200000

\* the fixed-point unit: 1.0 is Scale, the resolution is 1/Scale
Scale == 2 * HalfUnit

(* Program constants *)

MAX_ITER == 300
EPSILON == [cls |-> "fin", v |-> (Scale \div 10000)]

----------------------------------------------------------------------------
(* The double type *)

Fin(x) == [cls |-> "fin", v |-> x]
NaN == [cls |-> "nan", v |-> 0]
PInf == [cls |-> "inf", v |-> 1]
NInf == [cls |-> "inf", v |-> -1]
Zero == Fin(0)
One == Fin(Scale)
Half == Fin(HalfUnit)

Abs(x) == IF x < 0 THEN -x ELSE x
Sgn(x) == IF x < 0 THEN -1 ELSE IF x > 0 THEN 1 ELSE 0
SInf(s) == IF s < 0 THEN NInf ELSE PInf

\* rounding of a finite result: overflow becomes an infinity
Round(x) == IF x > MaxFinite THEN PInf ELSE IF x < -MaxFinite THEN NInf ELSE Fin(x)

\* the sign of a non-NaN value; zero counts as positive for infinities' sake
SignOf(a) == IF a.v < 0 THEN -1 ELSE 1

\* (x * y) \div Scale for x, y >= 0, without an intermediate above 2^31
MulDiv(x, y) == (x \div Scale) * y + ((x % Scale) * y) \div Scale

DAdd(a, b) ==
    IF a.cls = "nan" \/ b.cls = "nan" THEN NaN
    ELSE IF a.cls = "inf" /\ b.cls = "inf" THEN (IF a.v = b.v THEN a ELSE NaN)
    ELSE IF a.cls = "inf" THEN a
    ELSE IF b.cls = "inf" THEN b
    ELSE Round(a.v + b.v)

DNeg(a) == IF a.cls = "nan" THEN NaN ELSE [cls |-> a.cls, v |-> -a.v]

DSub(a, b) == DAdd(a, DNeg(b))

DMul(a, b) ==
    IF a.cls = "nan" \/ b.cls = "nan" THEN NaN
    ELSE IF a.cls = "inf" \/ b.cls = "inf"
         THEN (IF a.v = 0 \/ b.v = 0 THEN NaN ELSE SInf(SignOf(a) * SignOf(b)))
    ELSE Round(Sgn(a.v) * Sgn(b.v) * MulDiv(Abs(a.v), Abs(b.v)))

DDiv(a, b) ==
    IF a.cls = "nan" \/ b.cls = "nan" THEN NaN
    ELSE IF a.cls = "inf" /\ b.cls = "inf" THEN NaN
    ELSE IF a.cls = "inf" THEN SInf(SignOf(a) * SignOf(b))
    ELSE IF b.cls = "inf" THEN Zero
    ELSE IF b.v = 0 THEN (IF a.v = 0 THEN NaN ELSE SInf(a.v))
    ELSE Round(Sgn(a.v) * Sgn(b.v) * ((Abs(a.v) * Scale) \div Abs(b.v)))

\* a < b and a == b of C: false as soon as one side is a NaN
DLt(a, b) ==
    /\ a.cls # "nan" /\ b.cls # "nan"
    /\ IF a.cls = "inf" THEN a.v < 0 /\ b # a
       ELSE IF b.cls = "inf" THEN b.v > 0
       ELSE a.v < b.v

DEq(a, b) == a.cls # "nan" /\ b.cls # "nan" /\ a = b

RECURSIVE ISqrt(_, _, _)
\* the largest r in lo..hi with r*r <= x
ISqrt(x, lo, hi) ==
    IF lo >= hi THEN lo
    ELSE LET mid == (lo + hi + 1) \div 2
         IN IF mid <= x \div mid THEN ISqrt(x, mid, hi) ELSE ISqrt(x, lo, mid - 1)

DSqrt(a) ==
    IF a.cls = "nan" THEN NaN
    ELSE IF a.v < 0 THEN NaN
    ELSE IF a.cls = "inf" THEN PInf
    ELSE Fin(ISqrt(a.v * Scale, 0, MaxFinite))

----------------------------------------------------------------------------
(* The heap *)

ARR == -1
NULLP == <<"null", 0>>
WILD == <<"wild", 0>>
NoGarbage == [i \in {} |-> NULLP]

Heap(l, fs) == [live |-> l, faults |-> fs]

\* malloc/calloc of block b succeeding
Alloc(m, b) == [m EXCEPT !.live = @ \cup {b}]

\* free(p): p must be a live block
Free(m, p) ==
    IF p \in m.live THEN [m EXCEPT !.live = @ \ {p}]
    ELSE [m EXCEPT !.faults = @ \cup {"invalid_free"}]

RECURSIVE AllocRows(_, _, _, _)
\* rows from..upto-1 of matrix mat allocated, in order
AllocRows(m, mat, from, upto) ==
    IF from >= upto THEN m
    ELSE AllocRows(Alloc(m, <<mat, from>>), mat, from + 1, upto)

RECURSIVE FreeRows(_, _, _, _, _, _)
\* the loop of free_c_array: slots below `assigned` hold their row, the other
\* slots were never written and hold g[i]
FreeRows(m, mat, assigned, i, cnt, g) ==
    IF i >= cnt THEN m
    ELSE LET p == IF i < assigned THEN <<mat, i>> ELSE g[i]
             m1 == IF i < assigned THEN m
                   ELSE [m EXCEPT !.faults = @ \cup {"uninit_read"}]
             m2 == IF p # NULLP THEN Free(m1, p) ELSE m1
         IN FreeRows(m2, mat, assigned, i + 1, cnt, g)

free_c_array(m, mat, assigned, cnt, g) ==
    Free(FreeRows(m, mat, assigned, 0, cnt, g), <<mat, ARR>>)

----------------------------------------------------------------------------
(* Matrices: a matrix value is a function row -> column -> double, indexed *)
(* from 0 as in the source.  The result of an operation that allocates is  *)
(* [ok, m, val]: ok is FALSE for a NULL return, m is the heap afterwards.  *)
(* f is the number (from 1) of the allocation of the call that fails; 0,   *)
(* or a number above the call's allocations, lets all of them succeed.     *)

Rows(r) == 0 .. (r - 1)
Fail(m) == [ok |-> FALSE, m |-> m, val |-> <<>>]
Done(m, x) == [ok |-> TRUE, m |-> m, val |-> x]
\* F applied to the value of x, which is computed once
With(x, F(_)) == F(x)
\* allocation number f of a call, seen from a callee whose first is off + 1
Shift(f, off) == IF f > off THEN f - off ELSE 0

RECURSIVE DotFrom(_, _, _, _, _, _)
\* the inner loop of matrix_multiply: acc += A[i][x] * B[x][j] for x = from..mm-1
DotFrom(A, B, i, j, from, mm) ==
    IF from >= mm THEN Zero
    ELSE LET rest == DotFrom(A, B, i, j, from, mm - 1)
         IN DAdd(rest, DMul(A[i][mm - 1], B[mm - 1][j]))

matrix_multiply(A, B, nn, mm, pp, C, m, f) ==
    IF f = 1 THEN Fail(m)
    ELSE LET m0 == Alloc(m, <<C, ARR>>)
         IN IF f >= 2 /\ f <= nn + 1
            THEN LET i == f - 2
                 IN Fail(free_c_array(AllocRows(m0, C, 0, i), C, i, i, NoGarbage))
            ELSE Done(AllocRows(m0, C, 0, nn),
                      [i \in Rows(nn) |-> [j \in Rows(pp) |->
                          DotFrom(A, B, i, j, 0, mm)]])

transpose_matrix(A, nn, mm, T, m, f) ==
    IF f = 1 THEN Fail(m)
    ELSE LET m0 == Alloc(m, <<T, ARR>>)
         IN IF f >= 2 /\ f <= mm + 1
            THEN LET i == f - 2
                 IN Fail(free_c_array(AllocRows(m0, T, 0, i), T, i, i, NoGarbage))
            ELSE Done(AllocRows(m0, T, 0, mm),
                      [i \in Rows(mm) |-> [j \in Rows(nn) |-> A[j][i]]])

RECURSIVE FrobFrom(_, _, _, _)
\* calculate_frobenius_norm's double loop over the first `cells` entries,
\* row by row
FrobFrom(A, B, kk, cells) ==
    IF cells = 0 THEN Zero
    ELSE LET i == (cells - 1) \div kk
             j == (cells - 1) % kk
             diff == DSub(A[i][j], B[i][j])
         IN DAdd(FrobFrom(A, B, kk, cells - 1), DMul(diff, diff))

calculate_frobenius_norm(A, B, nn, kk) == FrobFrom(A, B, kk, nn * kk)

\* copy_matrix(dest, src, n, k) on the store
copy_matrix(st, dest, src, nn, kk) ==
    [st EXCEPT ![dest] = [i \in Rows(nn) |-> [j \in Rows(kk) |-> st[src][i][j]]]]

----------------------------------------------------------------------------
(* sym, ddg and norm *)

\* exp(-1/2), in units
InvSqrtE == (6065 * Scale) \div 10000

RECURSIVE ExpSteps(_)
\* exp(-s/2) for a whole number s of units of squared distance
ExpSteps(s) == IF s = 0 THEN Scale ELSE MulDiv(ExpSteps(s - 1), InvSqrtE)

\* exp(-sum / 2.0) of line 169, for sum >= 0.  The result underflows to 0 at
\* a smaller sum than in binary64, where it takes a sum above 1490.
ExpNegHalf(sum) ==
    IF sum.cls = "nan" THEN NaN
    ELSE IF sum.cls = "inf" THEN Zero
    ELSE Fin(ExpSteps(sum.v \div Scale))

RECURSIVE SqDist(_, _, _, _)
\* lines 164-168: the squared distance of points i and j over the first dd
\* coordinates
SqDist(points, i, j, dd) ==
    IF dd = 0 THEN Zero
    ELSE LET diff == DSub(points[i][dd - 1], points[j][dd - 1])
         IN DAdd(SqDist(points, i, j, dd - 1), DMul(diff, diff))

SimilarityDiagOne(points, i, j, dd) == ExpNegHalf(SqDist(points, i, j, dd))
Similarity(points, i, j, dd) ==
    IF i = j THEN Zero ELSE ExpNegHalf(SqDist(points, i, j, dd))

sym(points, nn, dd, m, f) ==
    IF f = 1 THEN Fail(m)
    ELSE LET m0 == Alloc(m, <<"similarity", ARR>>)
         IN IF f >= 2 /\ f <= nn + 1
            THEN LET i == f - 2
                 IN Fail(free_c_array(AllocRows(m0, "similarity", 0, i),
                                      "similarity", i, i, NoGarbage))
            ELSE Done(AllocRows(m0, "similarity", 0, nn),
                      [i \in Rows(nn) |-> [j \in Rows(nn) |->
                          Similarity(points, i, j, dd)]])

RECURSIVE RowSum(_, _, _)
\* the loops of lines 199-201 and 222-224: 0.0 + row[0] + ... + row[cnt-1]
RowSum(row, cnt, acc) ==
    IF cnt = 0 THEN acc ELSE DAdd(RowSum(row, cnt - 1, acc), row[cnt - 1])

\* the cell degree[i][j] after lines 192-201
DegreeCellAllSums(similarity, nn, i, j) == RowSum(similarity[i], nn, Zero)
DegreeCell(similarity, nn, i, j) ==
    IF i = j THEN RowSum(similarity[i], nn, Zero) ELSE Zero

\* lines 186-196 of ddg: the heap when allocation number f of ddg (counted
\* after those of sym) fails
ddg_cleanup_leak(m, nn, f) ==
    IF f = 1 THEN m
    ELSE LET i == f - 2
         IN free_c_array(AllocRows(Alloc(m, <<"degree", ARR>>), "degree", 0, i),
                         "degree", i, i, NoGarbage)
ddg_cleanup(m, nn, f) ==
    IF f = 1 THEN free_c_array(m, "similarity", nn, nn, NoGarbage)
    ELSE LET i == f - 2
             m1 == AllocRows(Alloc(m, <<"degree", ARR>>), "degree", 0, i)
         IN free_c_array(free_c_array(m1, "similarity", nn, nn, NoGarbage),
                         "degree", i, i, NoGarbage)

ddg(points, nn, dd, m, f) ==
    With(sym(points, nn, dd, m, f), LAMBDA similarity :
    IF ~similarity.ok THEN Fail(similarity.m) ELSE
    LET g == Shift(f, 1 + nn)
    IN IF g >= 1 /\ g <= 1 + nn
       THEN Fail(ddg_cleanup(similarity.m, nn, g))
       ELSE Done(free_c_array(
                    AllocRows(Alloc(similarity.m, <<"degree", ARR>>), "degree", 0, nn),
                    "similarity", nn, nn, NoGarbage),
                 [i \in Rows(nn) |-> [j \in Rows(nn) |->
                     DegreeCell(similarity.val, nn, i, j)]]))

\* lines 221-225 of norm
degree_diag(similarity, nn) == [i \in Rows(nn) |-> RowSum(similarity[i], nn, Zero)]

\* line 243
NormalizedCell(similarity, deg, i, j) ==
    DDiv(similarity[i][j], DSqrt(DMul(deg[i], deg[j])))

\* lines 216-240 of norm: the heap when allocation number f of norm (counted
\* after those of sym) fails
norm_cleanup(m, nn, f) ==
    IF f = 1 THEN free_c_array(m, "similarity", nn, nn, NoGarbage)
    ELSE LET m1 == Alloc(m, <<"degree_diag", ARR>>)
         IN IF f = 2
            THEN free_c_array(Free(m1, <<"degree_diag", ARR>>),
                              "similarity", nn, nn, NoGarbage)
            ELSE LET i == f - 3
                     m2 == AllocRows(Alloc(m1, <<"normalized", ARR>>),
                                     "normalized", 0, i)
                 IN free_c_array(
                       free_c_array(Free(m2, <<"degree_diag", ARR>>),
                                    "similarity", nn, nn, NoGarbage),
                       "normalized", i, i, NoGarbage)

norm(points, nn, dd, m, f) ==
    With(sym(points, nn, dd, m, f), LAMBDA similarity :
    IF ~similarity.ok THEN Fail(similarity.m) ELSE
    LET g == Shift(f, 1 + nn)
        deg == degree_diag(similarity.val, nn)
        all == AllocRows(Alloc(Alloc(similarity.m, <<"degree_diag", ARR>>),
                               <<"normalized", ARR>>), "normalized", 0, nn)
    IN IF g >= 1 /\ g <= 2 + nn
       THEN Fail(norm_cleanup(similarity.m, nn, g))
       ELSE Done(free_c_array(Free(all, <<"degree_diag", ARR>>),
                              "similarity", nn, nn, NoGarbage),
                 [i \in Rows(nn) |-> [j \in Rows(nn) |->
                     NormalizedCell(similarity.val, deg, i, j)]]))

----------------------------------------------------------------------------
(* update_H(W, H, n, k): W and H are the names of the matrices the two      *)
(* pointers refer to; H is updated in place in the store.                  *)

UpdateAllocs(nn, kk) == 4 + 3 * nn + kk

\* H[i][j] *= (1 - beta + beta * (WH[i][j] / HHtH[i][j]))
UpdateEntryPrecedence(h, wh, hhth) ==
    DMul(h, DDiv(DAdd(DSub(One, Half), DMul(Half, wh)), hhth))
UpdateEntry(h, wh, hhth) ==
    DMul(h, DAdd(DSub(One, Half), DMul(Half, DDiv(wh, hhth))))

update_H(Wn, Hn, nn, kk, st, m, f) ==
    LET FreeWH(h) == free_c_array(h, "WH", nn, nn, NoGarbage)
        FreeHt(h) == free_c_array(h, "Ht", kk, kk, NoGarbage)
        FreeHHt(h) == free_c_array(h, "HHt", nn, nn, NoGarbage)
        FreeHHtH(h) == free_c_array(h, "HHtH", nn, nn, NoGarbage)
        No(h) == [ok |-> FALSE, m |-> h, st |-> st]
    IN
    With(matrix_multiply(st[Wn], st[Hn], nn, nn, kk, "WH", m, f), LAMBDA WH :
    IF ~WH.ok THEN No(WH.m) ELSE
    With(transpose_matrix(st[Hn], nn, kk, "Ht", WH.m, Shift(f, 1 + nn)), LAMBDA Ht :
    IF ~Ht.ok THEN No(FreeWH(Ht.m)) ELSE
    With(matrix_multiply(st[Hn], Ht.val, nn, kk, nn, "HHt", Ht.m,
                         Shift(f, 2 + nn + kk)), LAMBDA HHt :
    IF ~HHt.ok THEN No(FreeHt(FreeWH(HHt.m))) ELSE
    With(matrix_multiply(HHt.val, st[Hn], nn, nn, kk, "HHtH", HHt.m,
                         Shift(f, 3 + 2 * nn + kk)), LAMBDA HHtH :
    IF ~HHtH.ok THEN No(FreeHHt(FreeHt(FreeWH(HHtH.m)))) ELSE
    [ok |-> TRUE,
     m |-> FreeHHtH(FreeHHt(FreeHt(FreeWH(HHtH.m)))),
     st |-> [st EXCEPT ![Hn] =
                [i \in Rows(nn) |-> [j \in Rows(kk) |->
                    UpdateEntry(st[Hn][i][j], WH.val[i][j], HHtH.val[i][j])]]]]))))

----------------------------------------------------------------------------
(* symnmf(W, H, n, k) *)

Null == <<>>
MatBlocks(mat, rows) == {<<mat, ARR>>} \cup {<<mat, i>> : i \in Rows(rows)}
CallerBlocks == MatBlocks("W", n) \cup MatBlocks("H", n)

SymnmfAllocs(nn) == 2 + 2 * nn

\* what an uninitialised row pointer may hold
GarbagePointers(l) == {NULLP, WILD} \cup l

\* the allocations of lines 256-274, the f-th of which fails (g: the values
\* read from the uninitialised slots of H_prev)
symnmf_alloc(m, nn, f, g) ==
    IF f = 1 THEN Fail(m)
    ELSE LET m1 == Alloc(m, <<"H_prev", ARR>>)
         IN IF f = 2 THEN Fail(free_c_array(m1, "H_prev", 0, nn, g))
            ELSE LET m2 == Alloc(m1, <<"result", ARR>>)
                     i == (f - 3) \div 2
                     both == AllocRows(AllocRows(m2, "H_prev", 0, i), "result", 0, i)
                 IN IF f >= 3 /\ f <= SymnmfAllocs(nn) /\ (f - 3) % 2 = 0
                    THEN Fail(free_c_array(
                                free_c_array(both, "H_prev", i, i, NoGarbage),
                                "result", i, i, NoGarbage))
                    ELSE IF f >= 3 /\ f <= SymnmfAllocs(nn)
                    THEN Fail(free_c_array(
                                free_c_array(Alloc(both, <<"H_prev", i>>),
                                             "H_prev", i + 1, i + 1, NoGarbage),
                                "result", i, i, NoGarbage))
                    ELSE Done(AllocRows(AllocRows(m2, "H_prev", 0, nn),
                                        "result", 0, nn), Null)

\* the state a call leaves behind when it returns NULL: its locals are gone
ReturnNull(m) ==
    /\ live' = m.live
    /\ faults' = m.faults
    /\ store' = [store EXCEPT !["H_prev"] = Null, !["result"] = Null]
    /\ iter' = 0
    /\ updates' = 0
    /\ lastDelta' = Zero
    /\ \/ pc' = "returned" /\ ret' = "NULL"
       \* free() of a pointer that is no live block may also end the process
       \/ "invalid_free" \in m.faults /\ pc' = "crashed" /\ ret' = "none"

\* line 285: calculate_frobenius_norm(result, H_prev, n, k) < EPSILON
ConvergedInverted(delta) == DLt(EPSILON, delta)
Converged(delta) == DLt(delta, EPSILON)

\* lines 252-276: allocate H_prev and result, copy H into result
symnmf_enter ==
    /\ pc = "call" /\ op \in {"symnmf", "py_symnmf"}
    /\ \E f \in 0 .. SymnmfAllocs(n) :
       \E g \in [Rows(n) -> GarbagePointers(live \cup {<<"H_prev", ARR>>})] :
          /\ f # 2 => g = [i \in Rows(n) |-> NULLP]
          /\ failed' = (f # 0)
          /\ LET r == symnmf_alloc(Heap(live, faults), n, f, g)
             IN IF ~r.ok
                THEN ReturnNull(r.m)
                ELSE /\ live' = r.m.live
                     /\ faults' = r.m.faults
                     /\ store' = copy_matrix(store, "result", "H", n, k)
                     /\ pc' = "loop"
                     /\ iter' = 0
                     /\ UNCHANGED <<ret, updates, lastDelta>>
    /\ UNCHANGED <<op, n, k, d, host>>

\* lines 278-288: one pass of the main loop
symnmf_iterate ==
    /\ pc = "loop" /\ iter < MAX_ITER
    /\ \E f \in 0 .. UpdateAllocs(n, k) :
       \E u \in {update_H("W", "result", n, k,
                           copy_matrix(store, "H_prev", "result", n, k),
                           Heap(live, faults), f)} :
          LET delta == calculate_frobenius_norm(u.st["result"], u.st["H_prev"], n, k)
          IN /\ failed' = (f # 0)
             /\ IF ~u.ok
                THEN ReturnNull(free_c_array(
                                   free_c_array(u.m, "H_prev", n, n, NoGarbage),
                                   "result", n, n, NoGarbage))
                ELSE /\ live' = u.m.live
                     /\ faults' = u.m.faults
                     /\ store' = u.st
                     /\ updates' = updates + 1
                     /\ lastDelta' = delta
                     /\ IF Converged(delta)
                        THEN pc' = "break" /\ iter' = iter
                        ELSE pc' = "loop" /\ iter' = iter + 1
                     /\ ret' = ret
    /\ UNCHANGED <<op, n, k, d, host>>

\* lines 289-290: the loop has ended; release H_prev and return result
symnmf_return ==
    /\ \/ pc = "break"
       \/ pc = "loop" /\ iter >= MAX_ITER
    /\ LET m == free_c_array(Heap(live, faults), "H_prev", n, n, NoGarbage)
       IN live' = m.live /\ faults' = m.faults
    /\ ret' = "result"
    /\ pc' = "returned"
    /\ UNCHANGED <<op, n, k, d, store, iter, updates, lastDelta, failed, host>>

----------------------------------------------------------------------------
(* The calls of symnmf that are explored *)

HVals == {Zero, Half, One}
WVals == {Zero, One}

\* a matrix with x on the cells where row + column is even and y elsewhere
Checker(rows, cols, x, y) ==
    [i \in Rows(rows) |-> [j \in Rows(cols) |-> IF (i + j) % 2 = 0 THEN x ELSE y]]

NoHost == [W |-> <<>>, H |-> <<>>, read |-> FALSE, reached |-> FALSE]

InitSymnmf ==
    /\ pc = "call" /\ op = "symnmf"
    /\ n \in 1 .. MaxN /\ k \in 1 .. MaxK /\ d = 0
    /\ \E wd \in WVals, wo \in WVals, a \in HVals, b \in HVals :
          store = [W |-> Checker(n, n, wd, wo), H |-> Checker(n, k, a, b),
                   H_prev |-> Null, result |-> Null]
    /\ live = MatBlocks("W", n) \cup MatBlocks("H", n)
    /\ faults = {}
    /\ ret = "none"
    /\ iter = 0 /\ updates = 0 /\ lastDelta = Zero
    /\ failed = FALSE
    /\ host = NoHost

Next == symnmf_enter \/ symnmf_iterate \/ symnmf_return

Spec == InitSymnmf /\ [][Next]_vars

----------------------------------------------------------------------------
(* The calls of sym, ddg, norm, matrix_multiply and transpose_matrix that   *)
(* are explored: one call per behaviour, any one of its allocations failing *)

SymAllocs(nn) == 1 + nn
DdgAllocs(nn) == 2 + 2 * nn
NormAllocs(nn) == 3 + 2 * nn

\* the call returns r
Return(r, f) ==
    /\ live' = r.m.live
    /\ faults' = r.m.faults
    /\ store' = [store EXCEPT !["out"] = r.val]
    /\ ret' = IF r.ok THEN "matrix" ELSE "NULL"
    /\ failed' = (f # 0)
    /\ pc' = "returned"
    /\ UNCHANGED <<op, n, k, d, iter, updates, lastDelta, host>>

call_sym ==
    /\ pc = "call" /\ op = "sym"
    /\ \E f \in 0 .. SymAllocs(n) :
          Return(sym(store["points"], n, d, Heap(live, faults), f), f)

call_ddg ==
    /\ pc = "call" /\ op = "ddg"
    /\ \E f \in 0 .. DdgAllocs(n) :
          Return(ddg(store["points"], n, d, Heap(live, faults), f), f)

call_norm ==
    /\ pc = "call" /\ op = "norm"
    /\ \E f \in 0 .. NormAllocs(n) :
          Return(norm(store["points"], n, d, Heap(live, faults), f), f)

call_matrix_multiply ==
    /\ pc = "call" /\ op = "matrix_multiply"
    /\ \E f \in 0 .. (1 + n) :
          Return(matrix_multiply(store["A"], store["B"], n, k, n, "C",
                                 Heap(live, faults), f), f)

call_transpose_matrix ==
    /\ pc = "call" /\ op = "transpose_matrix"
    /\ \E f \in 0 .. (1 + k) :
          Return(transpose_matrix(store["A"], n, k, "result",
                                  Heap(live, faults), f), f)

Coords == {Zero, One, Fin(MaxCoord * Scale)}

InitOps ==
    /\ pc = "call"
    /\ n \in 1 .. MaxN
    /\ \/ /\ op \in {"sym", "ddg", "norm"}
          /\ d \in 0 .. MaxD /\ k = 0
          /\ \E points \in [Rows(n) -> [Rows(d) -> Coords]] :
                store = [points |-> points, out |-> Null]
          /\ live = MatBlocks("points", n)
       \/ /\ op \in {"matrix_multiply", "transpose_matrix"}
          /\ k \in 1 .. MaxK /\ d = 0
          /\ \E a \in HVals, b \in HVals, x \in WVals, y \in WVals :
                store = [A |-> Checker(n, k, a, b), B |-> Checker(k, n, x, y),
                         out |-> Null]
          /\ live = MatBlocks("A", n) \cup MatBlocks("B", k)
    /\ faults = {}
    /\ ret = "none"
    /\ iter = 0 /\ updates = 0 /\ lastDelta = Zero
    /\ failed = FALSE
    /\ host = NoHost

NextOps ==
    \/ call_sym \/ call_ddg \/ call_norm
    \/ call_matrix_multiply \/ call_transpose_matrix

SpecOps == InitOps /\ [][NextOps]_vars

----------------------------------------------------------------------------
(* The binding: py_symnmf(W, H, n, k) of src/symnmfmodule.c.  A host list   *)
(* is a sequence of rows, each a sequence of doubles; n and k are the       *)
(* integers the caller passes beside them.                                 *)

\* PyFloat_AsDouble(PyList_GetItem(py_row, j)): an index past the end of the
\* row makes PyList_GetItem return NULL, of which PyFloat_AsDouble makes -1.0
HostItem(py_row, j) == IF j < Len(py_row) THEN py_row[j + 1] ELSE Fin(-Scale)

\* lines 9-28.  PyList_GetItem(py_list, i) is NULL for a row past the end of
\* the list, and PyList_GetItem(NULL, j) dereferences it: crash.  read tells
\* whether an item of the host list was read.
py_list_to_c_array(py_list, nn, dd, name, m, f) ==
    LET rows == Len(py_list)
        \* the rows whose malloc succeeds
        got == IF f = 0 \/ f > nn + 1 THEN nn ELSE f - 2
        crash == dd > 0 /\ rows < nn /\ rows < got
        read == dd > 0 /\ \E i \in Rows(got) : i < rows /\ Len(py_list[i + 1]) > 0
    IN IF f = 1 THEN [ok |-> FALSE, crash |-> FALSE, read |-> FALSE, m |-> m,
                      val |-> Null]
       ELSE IF crash
       THEN [ok |-> FALSE, crash |-> TRUE, read |-> read,
             m |-> AllocRows(Alloc(m, <<name, ARR>>), name, 0, rows + 1),
             val |-> Null]
       ELSE IF got < nn
       THEN [ok |-> FALSE, crash |-> FALSE, read |-> read,
             m |-> free_c_array(AllocRows(Alloc(m, <<name, ARR>>), name, 0, got),
                                name, got, got, NoGarbage),
             val |-> Null]
       ELSE [ok |-> TRUE, crash |-> FALSE, read |-> read,
             m |-> AllocRows(Alloc(m, <<name, ARR>>), name, 0, nn),
             val |-> [i \in Rows(nn) |-> [j \in Rows(dd) |->
                        IF i < rows THEN HostItem(py_list[i + 1], j) ELSE Zero]]]

\* the process is gone, or py_symnmf returned None
PyEnd(m, how, read) ==
    /\ pc' = how
    /\ live' = m.live
    /\ faults' = m.faults
    /\ host' = [host EXCEPT !.read = read]
    /\ ret' = IF how = "py_returned" THEN "None" ELSE "none"
    /\ UNCHANGED <<store, failed>>

\* lines 167-179: both lists are converted; line 182 then calls symnmf
py_symnmf_convert ==
    /\ pc = "py_call"
    /\ \E f \in 0 .. (2 + 2 * n) :
       \E w \in {py_list_to_c_array(host.W, n, n, "W", Heap(live, faults), f)} :
          IF w.crash THEN PyEnd(w.m, "crashed", w.read)
          ELSE IF ~w.ok THEN PyEnd(w.m, "py_returned", w.read)
          ELSE \E h \in {py_list_to_c_array(host.H, n, k, "H", w.m,
                                             Shift(f, 1 + n))} :
             IF h.crash THEN PyEnd(h.m, "crashed", w.read \/ h.read)
             ELSE IF ~h.ok
             THEN PyEnd(free_c_array(h.m, "W", n, n, NoGarbage), "py_returned",
                        w.read \/ h.read)
             ELSE /\ pc' = "call"
                  /\ live' = h.m.live
                  /\ faults' = h.m.faults
                  /\ store' = [store EXCEPT !["W"] = w.val, !["H"] = h.val]
                  /\ host' = [host EXCEPT !.read = w.read \/ h.read,
                                          !.reached = TRUE]
                  /\ UNCHANGED <<ret, failed>>
    /\ UNCHANGED <<op, n, k, d, iter, updates, lastDelta>>

\* lines 183-197: symnmf has returned; the arrays are released and the
\* result, when there is one and the host can build the list, is returned
py_symnmf_finish ==
    /\ pc = "returned" /\ op = "py_symnmf"
    /\ LET m0 == free_c_array(free_c_array(Heap(live, faults), "W", n, n, NoGarbage),
                              "H", n, n, NoGarbage)
           m1 == IF ret = "NULL" THEN m0
                 ELSE free_c_array(m0, "result", n, n, NoGarbage)
       IN /\ live' = m1.live
          /\ faults' = m1.faults
    /\ ret' \in IF ret = "NULL" THEN {"None"} ELSE {"None", "list"}
    /\ pc' = "py_returned"
    /\ UNCHANGED <<op, n, k, d, store, iter, updates, lastDelta, failed, host>>

\* a host list of r rows of c items each
HostList(r, c) == [i \in 1 .. r |-> [j \in 1 .. c |-> One]]

InitBind ==
    /\ pc = "py_call" /\ op = "py_symnmf"
    /\ n \in 1 .. MaxN /\ k \in 1 .. MaxK /\ d = 0
    /\ \E wr \in 1 .. MaxN, wc \in 1 .. MaxN, hr \in 1 .. MaxN, hc \in 1 .. MaxK :
          host = [W |-> HostList(wr, wc), H |-> HostList(hr, hc),
                  read |-> FALSE, reached |-> FALSE]
    /\ store = [W |-> Null, H |-> Null, H_prev |-> Null, result |-> Null]
    /\ live = {}
    /\ faults = {}
    /\ ret = "none"
    /\ iter = 0 /\ updates = 0 /\ lastDelta = Zero
    /\ failed = FALSE

NextBind ==
    \/ py_symnmf_convert
    \/ symnmf_enter \/ symnmf_iterate \/ symnmf_return
    \/ py_symnmf_finish

SpecBind == InitBind /\ [][NextBind]_vars

----------------------------------------------------------------------------
(* Claims about symnmf *)

Finished == pc \in {"returned", "crashed"}
CallBlocks ==
    UNION {MatBlocks(x, MaxN + MaxK) :
              x \in {"H_prev", "result", "WH", "Ht", "HHt", "HHtH"}}
UpdateStep == pc = "loop" /\ updates' = updates + 1

\* the delta between the matrix symnmf returns and the snapshot taken before
\* its last update
ReturnedDelta ==
    calculate_frobenius_norm(store["result"], store["H_prev"], n, k)

C1_Bounded ==
    /\ updates <= MAX_ITER
    /\ (pc = "returned" /\ ret = "result") =>
          /\ updates >= 1
          /\ DLt(ReturnedDelta, EPSILON) \/ updates = MAX_ITER
C1_NoUpdateAfterConvergence ==
    UpdateStep => (updates = 0 \/ ~DLt(lastDelta, EPSILON))

\* the steps symnmf may still take: 0 once it has returned
Remaining ==
    IF Finished THEN 0
    ELSE IF pc = "break" THEN 1
    ELSE IF pc = "loop" THEN 2 + (MAX_ITER - iter)
    ELSE 3 + MAX_ITER
C1_Progress == Remaining' < Remaining /\ Remaining' >= 0

\* C1: every step of symnmf brings its return nearer, so a call ends; a call
\* in which no allocation fails returns after at least 1 and at most 300
\* update steps, and when it returns either the squared Frobenius delta
\* between the returned H and the snapshot taken before the last update is
\* below 1e-4 or exactly 300 update steps were made; no update step follows a
\* step whose delta was below 1e-4.
C1_Termination ==
    /\ []C1_Bounded
    /\ [][C1_NoUpdateAfterConvergence /\ C1_Progress]_vars

\* a call that returned by convergence before the cap, and one that used all
\* 300 steps without converging
C1_Witness ==
    /\ pc = "returned" /\ ret = "result"
    /\ updates > 1 /\ updates < MAX_ITER
    /\ DLt(ReturnedDelta, EPSILON)
C1_WitnessCap ==
    /\ pc = "returned" /\ ret = "result"
    /\ updates = MAX_ITER /\ ~DLt(ReturnedDelta, EPSILON)

\* C2: when an allocation of symnmf or of update_H fails, symnmf returns NULL
\* and every block allocated during the call has been released; when none
\* fails, the only blocks of the call still live on return are those of the
\* returned H.
C2_FailureReleasesAll ==
    Finished =>
       IF failed
       THEN pc = "returned" /\ ret = "NULL" /\ live \cap CallBlocks = {}
       ELSE ret = "result" /\ live \cap CallBlocks = MatBlocks("result", n)

\* C4: symnmf never writes to its inputs: across every step of a call the
\* caller's W and H keep their blocks and their values, and the matrix
\* returned is made of blocks of its own.
C4_InputsUntouched ==
    [][/\ store'["W"] = store["W"]
       /\ store'["H"] = store["H"]
       /\ CallerBlocks \subseteq live => CallerBlocks \subseteq live'
       /\ ret' = "result" =>
             /\ MatBlocks("result", n) \subseteq live'
             /\ MatBlocks("result", n) \cap CallerBlocks = {}]_vars

\* C9: an entry of H that is exactly 0 before an update step is exactly 0
\* after it (and so after every later step), also when HHtH[i][j] is 0.
C9_ZeroStaysZero ==
    [][UpdateStep =>
         \A i \in Rows(n), j \in Rows(k) :
            DEq(store["result"][i][j], Zero) => DEq(store'["result"][i][j], Zero)]_vars

\* the sum vals[0] + ... + vals[cnt-1], in that order
RECURSIVE SumTo(_, _)
SumTo(vals, cnt) ==
    IF cnt = 0 THEN Zero ELSE DAdd(SumTo(vals, cnt - 1), vals[cnt - 1])

\* W*H, H*transpose(H) and (H*transpose(H))*H of the claim, entry by entry
ClaimWH(Wm, Hm, i, j) == SumTo([x \in Rows(n) |-> DMul(Wm[i][x], Hm[x][j])], n)
ClaimHHt(Hm, i, y) == SumTo([x \in Rows(k) |-> DMul(Hm[i][x], Hm[y][x])], k)
ClaimHHtH(Hm, i, j) ==
    SumTo([y \in Rows(n) |-> DMul(ClaimHHt(Hm, i, y), Hm[y][j])], n)
ClaimUpdate(Wm, Hm, i, j) ==
    DMul(Hm[i][j],
         DAdd(Half, DMul(Half, DDiv(ClaimWH(Wm, Hm, i, j), ClaimHHtH(Hm, i, j)))))

ExampleW == Checker(2, 2, Zero, One)
ExampleH == Checker(2, 2, One, Zero)

\* C10: an update step is simultaneous: every entry of H becomes
\* H_old[i][j] * (0.5 + 0.5 * WH[i][j] / HHtH[i][j]) with WH = W*H_old and
\* HHtH = (H_old*transpose(H_old))*H_old; for W = [[0,1],[1,0]] and
\* H = [[1,0],[0,1]] the entry H[0][0] is 0.5 after the first step.
C10_SimultaneousUpdate ==
    [][UpdateStep =>
         /\ \A i \in Rows(n), j \in Rows(k) :
               store'["result"][i][j] = ClaimUpdate(store["W"], store["result"], i, j)
         /\ (updates = 0 /\ n = 2 /\ k = 2 /\ store["W"] = ExampleW
                /\ store["result"] = ExampleH)
               => store'["result"][0][0] = Half]_vars

\* the example of the claim after its first step
C10_Witness ==
    /\ n = 2 /\ k = 2 /\ store["W"] = ExampleW /\ store["H"] = ExampleH
    /\ pc = "loop" /\ updates = 1
    /\ store["result"][0][0] = Half

----------------------------------------------------------------------------
(* Claims about sym, ddg, norm, matrix_multiply and transpose_matrix *)

\* the blocks the caller passed in
InputBlocks ==
    IF op \in {"sym", "ddg", "norm"} THEN MatBlocks("points", n)
    ELSE MatBlocks("A", n) \cup MatBlocks("B", k)

\* the blocks of the matrix the operation returns
OutputBlocks ==
    IF op = "sym" THEN MatBlocks("similarity", n)
    ELSE IF op = "ddg" THEN MatBlocks("degree", n)
    ELSE IF op = "norm" THEN MatBlocks("normalized", n)
    ELSE IF op = "matrix_multiply" THEN MatBlocks("C", n)
    ELSE MatBlocks("result", k)

\* C3: when an allocation of matrix_multiply, transpose_matrix, sym, ddg or
\* norm fails (also one of the nested sym call) the operation returns NULL
\* and no block allocated during the call is live; when none fails exactly
\* the blocks of the returned matrix are live besides the caller's.
C3_NoLeak ==
    pc = "returned" =>
       IF failed
       THEN ret = "NULL" /\ live = InputBlocks
       ELSE ret = "matrix" /\ live = InputBlocks \cup OutputBlocks

\* norm returned NULL because the last row of its result could not be had
C3_Witness ==
    /\ pc = "returned" /\ op = "norm" /\ n = MaxN
    /\ failed /\ ret = "NULL" /\ live = InputBlocks

\* the squared distance of points i and j, as the claim states it
ClaimSqDist(points, i, j) ==
    SumTo([c \in Rows(d) |->
             DMul(DSub(points[i][c], points[j][c]),
                  DSub(points[i][c], points[j][c]))], d)

\* C5: the matrix A returned by sym has A[i][j] == A[j][i] and A[i][i] == 0
\* for all i, j, and each off-diagonal entry is the kernel value of the
\* squared distance of points i and j.
C5_SymSymmetric ==
    (pc = "returned" /\ op = "sym" /\ ret = "matrix") =>
       \A i \in Rows(n), j \in Rows(n) :
          /\ DEq(store["out"][i][j], store["out"][j][i])
          /\ DEq(store["out"][i][i], Zero)
          /\ i # j => store["out"][i][j] =
                         ExpNegHalf(ClaimSqDist(store["points"], i, j))

\* sym returned the similarity of two points that differ
C5_Witness ==
    /\ pc = "returned" /\ op = "sym" /\ ret = "matrix"
    /\ n >= 2 /\ d >= 1
    /\ DLt(Zero, store["out"][0][1]) /\ DLt(store["out"][0][1], One)

\* what sym and norm compute for the same points, no allocation failing
SimilarityOf(points) == sym(points, n, d, Heap({}, {}), 0).val
NormDegreeOf(points) == degree_diag(SimilarityOf(points), n)

\* C6: the matrix D returned by ddg has every off-diagonal entry exactly 0
\* and D[i][i] equal to the sum over j of similarity(points)[i][j], which is
\* the degree vector norm computes from the same points.
C6_DdgDiagonal ==
    (pc = "returned" /\ op = "ddg" /\ ret = "matrix") =>
       \A i \in Rows(n) :
          /\ \A j \in Rows(n) \ {i} : DEq(store["out"][i][j], Zero)
          /\ store["out"][i][i] =
                SumTo([j \in Rows(n) |-> SimilarityOf(store["points"])[i][j]], n)
          /\ store["out"][i][i] = NormDegreeOf(store["points"])[i]

\* ddg returned a matrix with a non-zero degree
C6_Witness ==
    /\ pc = "returned" /\ op = "ddg" /\ ret = "matrix"
    /\ n >= 2
    /\ DLt(Zero, store["out"][0][0])

\* C7: the matrix W returned by norm has W[i][j] == W[j][i] for all i, j and
\* W[i][i] == 0 for all i, also when the degree of a point is 0 (n = 1).
C7_NormSymmetricZeroDiagonal ==
    (pc = "returned" /\ op = "norm" /\ ret = "matrix") =>
       \A i \in Rows(n), j \in Rows(n) :
          /\ DEq(store["out"][i][j], store["out"][j][i])
          /\ DEq(store["out"][i][i], Zero)

----------------------------------------------------------------------------
(* Memory safety of the cleanup paths *)

\* C11: in every execution of symnmf and update_H, under every choice of the
\* allocation that fails, free is only handed blocks the call allocated and
\* has not yet released (no invalid or double free, no block of the caller
\* released) and no row slot is read before it was assigned.
C11_CleanupMemorySafe ==
    /\ faults = {}
    /\ CallerBlocks \subseteq live

\* symnmf is past its allocations (lines 256-274)
PastAllocation == pc = "loop" \/ pc = "break"
\* the part of C11 that the code keeps: no step of the loop (update_H and its
\* cleanup included) or of the return commits a fault
C11_LoopAndReturnSafe == [][PastAllocation => faults' = {}]_vars

\* sym, ddg, norm, matrix_multiply and transpose_matrix commit no fault and
\* never release a block of their caller
C11_OpsSafe ==
    /\ faults = {}
    /\ InputBlocks \subseteq live

----------------------------------------------------------------------------
(* Claims about the binding *)

\* the host lists really have the sizes n and k say
HostMatches ==
    /\ Len(host.W) = n /\ \A i \in 1 .. Len(host.W) : Len(host.W[i]) = n
    /\ Len(host.H) = n /\ \A i \in 1 .. Len(host.H) : Len(host.H[i]) = k

\* C8: py_symnmf reaches symnmf only if W really has n rows of n items and H
\* really has n rows of k items; with a mismatch no item is read.
C8_DimensionsValidated ==
    /\ host.reached => HostMatches
    /\ ~HostMatches => ~host.read

====
